---- MODULE Spec2Model ----
(***************************************************************************)
(* State-machine model of the URL shortener worker (src/src/index.ts).     *)
(*                                                                         *)
(* The worker keeps no state in the process: everything lives in the KV    *)
(* namespaces URL_MAPPINGS, URL_ANALYTICS, OG_METADATA_CACHE and API_KEYS. *)
(* A KV namespace is modelled as a function whose domain is the set of     *)
(* keys that are present.  Every request is one action that runs the       *)
(* middleware chain (authentication, rate limiter, body validation) and    *)
(* then the route handler, as registered in index.ts.  The KV store is     *)
(* read at a single replica (a put is visible to the next get).            *)
(*                                                                         *)
(* Time is counted in seconds (the unit of the KV expirationTtl);          *)
(* Date.now() is in milliseconds.                                          *)
(***************************************************************************)
EXTENDS Integers, Sequences, FiniteSets, TLC

VARIABLES
    now,        \* wall clock, seconds
    mappings,   \* URL_MAPPINGS : short code -> stored record
    analytics,  \* URL_ANALYTICS: key -> [val, exp] (exp = 0: no TTL)
    ogCache,    \* OG_METADATA_CACHE: og_metadata:<url> -> [meta, exp]
    customDomains, \* CUSTOM_DOMAINS of the worker with custom domains: domain -> target
    inflight,   \* the resolve requests being handled concurrently, per invocation
    resp,       \* history: the request handled last and its response
    prev,       \* history: the request handled before that one
    was,        \* history: the stores as the last request found them
    redirects,  \* history: redirects answered per code since its last DELETE
    served,     \* history: number of redirects to a target answered so far
    allowed,    \* history: per client, the requests the limiter let through
    nreq        \* history: number of requests handled

vars == <<now, mappings, analytics, ogCache, customDomains, inflight,
          resp, prev, was, redirects, served, allowed, nreq>>

-----------------------------------------------------------------------------
(* Bounds of the exploration *)

MaxRequests == 2
MaxTime == 120
MaxProcs == 3
MaxCacheTicks == 3

-----------------------------------------------------------------------------
(* Values of the request inputs *)

None == "none"
Undefined == "undefined"
Null == 0

Urls == {"https://a.io/x", "https://b.io/?p=1&q=2"}
BadUrl == "not a url"

\* the client addresses seen in CF-Connecting-IP
Ips == {"1.2.3.4"}

\* rateLimitKey = `rate_limit:${ip}`
rateLimitKey(ip) == "rate_limit:" \o ip

\* codes that nanoid(8) may return, and codes a caller may ask for: the custom
\* code pattern admits every string nanoid can return, so the two overlap
GenCodes == {"V1StGXR8", "Kq5ve_Zz"}
CustomCodes == {"V1StGXR8"}
BadCode == "bad code!"

\* the strings a request can carry in the :shortCode path parameter
Keys == GenCodes \cup CustomCodes \cup {rateLimitKey(ip) : ip \in Ips}

\* KV list() returns the keys in lexicographic order
KeyOrder == <<"Kq5ve_Zz", "V1StGXR8", "rate_limit:1.2.3.4">>

-----------------------------------------------------------------------------
(* The KV namespace: get / put / delete / list.  A key with a TTL is gone   *)
(* once the clock has reached its expiry (Tick removes it).                 *)

NoTtl == 0

KVHas(store, key) == key \in DOMAIN store

KVPut(store, key, value) ==
    [k \in DOMAIN store \cup {key} |-> IF k = key THEN value ELSE store[k]]

KVDelete(store, key) == [k \in DOMAIN store \ {key} |-> store[k]]

KVExpire(store, t) ==
    [k \in {x \in DOMAIN store : store[x].exp = NoTtl \/ store[x].exp > t} |-> store[k]]

-----------------------------------------------------------------------------
(* Middleware of /api/*: authentication, then the rate limiter *)

\* API_KEYS: the stored value of each key that is present
ApiKeys == [k \in {"k1", "k0"} |-> IF k = "k1" THEN "owner" ELSE ""]

\* the Authorization header with 'Bearer ' removed; Missing: no header
Missing == Undefined
Tokens == {Missing, "", "k1", "k0", "stranger"}

\* lines 32-39: a falsy token or a falsy stored value answers 401
Authenticated(token) ==
    /\ token # Missing
    /\ token # ""
    /\ token \in DOMAIN ApiKeys
    /\ ApiKeys[token] # ""

limit == 100
window == 60

\* the counter the limiter reads: count ? parseInt(count) : 0
RateCount(an, ip) ==
    IF KVHas(an, rateLimitKey(ip)) THEN an[rateLimitKey(ip)].val ELSE 0

\* the rejected request is counted as well
rateLimiter_CountRejected(an, ip, t) ==
    [allowed |-> RateCount(an, ip) < limit,
     store |-> KVPut(an, rateLimitKey(ip),
                     [val |-> RateCount(an, ip) + 1, exp |-> t + window])]

\* the limiter's verdict and the store it leaves
rateLimiter(an, ip, t) ==
    IF RateCount(an, ip) >= limit
    THEN [allowed |-> FALSE, store |-> an]
    ELSE [allowed |-> TRUE,
          store |-> KVPut(an, rateLimitKey(ip),
                          [val |-> RateCount(an, ip) + 1, exp |-> t + window])]

\* the limiter runs before the authentication
Middleware_LimiterFirst(an, token, ip, t) ==
    IF ~rateLimiter(an, ip, t).allowed
    THEN [status |-> 429, store |-> rateLimiter(an, ip, t).store]
    ELSE IF ~Authenticated(token)
    THEN [status |-> 401, store |-> rateLimiter(an, ip, t).store]
    ELSE [status |-> 0, store |-> rateLimiter(an, ip, t).store]

\* status the middleware chain answers with (0: the request goes on) and the
\* analytics store after it
Middleware(an, token, ip, t) ==
    IF ~Authenticated(token) THEN [status |-> 401, store |-> an]
    ELSE IF ~rateLimiter(an, ip, t).allowed
    THEN [status |-> 429, store |-> rateLimiter(an, ip, t).store]
    ELSE [status |-> 0, store |-> rateLimiter(an, ip, t).store]

-----------------------------------------------------------------------------
(* Request bodies and their validation (createUrlSchema, updateUrlSchema) *)

\* expiresIn of a body, in seconds; Null: the field is not given
ExpiresIns == {Null, 60}
MinExpiresIn == 60
MaxExpiresIn == 31536000

\* preview fields of a body: all three given, or none
NoMeta == [ogTitle |-> Undefined, ogDescription |-> Undefined, ogImage |-> Undefined]
CallerMeta == [ogTitle |-> "My title", ogDescription |-> "My text",
               ogImage |-> "https://a.io/me.png"]
BodyMetas == {NoMeta}

\* a body that gives the title alone
TitleOnly == [ogTitle |-> "My title", ogDescription |-> Undefined, ogImage |-> Undefined]

\* z.string().url(): the modelled strings that parse as a URL
IsUrl(s) == s \in Urls \cup {"https://a.io/me.png"}

\* z.string().regex(/^[a-zA-Z0-9_-]+$/): none of the modelled strings with a
\* blank, '!', ':' or '.' matches
MatchesCodePattern(s) == s \in GenCodes \cup CustomCodes

Body(url, customCode, expiresIn, meta) ==
    [url |-> url, customCode |-> customCode, expiresIn |-> expiresIn, meta |-> meta]

createUrlSchema(b) ==
    /\ IsUrl(b.url)
    /\ b.customCode # Undefined => MatchesCodePattern(b.customCode)
    /\ b.expiresIn # Null => (b.expiresIn >= MinExpiresIn /\ b.expiresIn <= MaxExpiresIn)
    /\ b.meta.ogImage # Undefined => IsUrl(b.meta.ogImage)

updateUrlSchema(url) == IsUrl(url)

\* the bodies of the requests: with or without a custom code, and with an
\* expiration where the code is generated
ValidBodies ==
    {Body(u, c, Null, m) : u \in Urls, c \in CustomCodes \cup {Undefined}, m \in BodyMetas}
    \cup {Body(u, Undefined, e, m) : u \in Urls, e \in ExpiresIns, m \in BodyMetas}

InvalidBodies ==
    { Body(BadUrl, Undefined, Null, NoMeta),
      Body("https://a.io/x", BadCode, Null, NoMeta),
      Body("https://a.io/x", rateLimitKey("1.2.3.4"), Null, NoMeta),
      Body("https://a.io/x", Undefined, MinExpiresIn - 1, NoMeta),
      Body("https://a.io/x", Undefined, MaxExpiresIn + 1, NoMeta) }

-----------------------------------------------------------------------------
(* fetchOpenGraphMetadata *)

CacheTtl == 3600

\* what fetch(url) meets: a page with the three og: tags; a failure (network
\* error or non-success status); a page whose body breaks off after its <title>
Pages == {"tags", "unreachable", "cut"}
FailedPages == {"unreachable", "cut"}

Placeholder == "https://via.placeholder.com/1200x630?text=No+Image"

PageMeta(page) ==
    IF page = "tags"
    THEN [ogTitle |-> "Page title", ogDescription |-> "Page text",
          ogImage |-> "https://a.io/og.png"]
    ELSE [ogTitle |-> IF page = "cut" THEN "Doc title" ELSE "Untitled",
          ogDescription |-> "No description available",
          ogImage |-> Placeholder]

ogKey(url) == "og_metadata:" \o url

\* the fallback of a failed fetch is returned but not cached
fetchOpenGraphMetadata_FallbackNotCached(cache, url, page, t) ==
    IF KVHas(cache, ogKey(url))
    THEN [meta |-> cache[ogKey(url)].meta, cache |-> cache]
    ELSE [meta |-> PageMeta(page),
          cache |-> IF page \in FailedPages THEN cache
                    ELSE KVPut(cache, ogKey(url),
                               [meta |-> PageMeta(page), exp |-> t + CacheTtl])]

\* the cache is not consulted
fetchOpenGraphMetadata_NoCacheRead(cache, url, page, t) ==
    [meta |-> PageMeta(page),
     cache |-> KVPut(cache, ogKey(url), [meta |-> PageMeta(page), exp |-> t + CacheTtl])]

\* the metadata returned and the cache left, given what a fetch would meet
fetchOpenGraphMetadata(cache, url, page, t) ==
    IF KVHas(cache, ogKey(url))
    THEN [meta |-> cache[ogKey(url)].meta, cache |-> cache]
    ELSE [meta |-> PageMeta(page),
          cache |-> KVPut(cache, ogKey(url), [meta |-> PageMeta(page), exp |-> t + CacheTtl])]

\* ogTitle && ogDescription && ogImage
AllGiven(meta) ==
    /\ meta.ogTitle # Undefined /\ meta.ogTitle # ""
    /\ meta.ogDescription # Undefined /\ meta.ogDescription # ""
    /\ meta.ogImage # Undefined /\ meta.ogImage # ""

NeedsFetch(cache, b) == ~AllGiven(b.meta) /\ ~KVHas(cache, ogKey(b.url))

-----------------------------------------------------------------------------
(* The create handler, POST /api/urls *)

DateNow(t) == t * 1000

RECURSIVE FirstMatch(_, _, _)
FirstMatch(m, url, i) ==
    IF i > Len(KeyOrder) THEN None
    ELSE IF KVHas(m, KeyOrder[i]) /\ m[KeyOrder[i]].url = url THEN KeyOrder[i]
    ELSE FirstMatch(m, url, i + 1)

\* the scan finds nothing
existingShortCode_NoScan(m, url) == None

\* lines 159-174: the first listed key whose stored url equals the requested one
existingShortCode(m, url) == FirstMatch(m, url, 1)

\* the check lets every custom code through
CustomTaken_Never(m, customCode) == FALSE

\* lines 180-185: the custom code is given and a record is stored under it
CustomTaken(m, customCode) == customCode # Undefined /\ KVHas(m, customCode)

\* line 187
expirationDate(expiresIn, t) ==
    IF expiresIn # Null THEN DateNow(t) + expiresIn * 1000 ELSE Null

\* lines 188-191: the record written
NewRecord(b, meta, t) ==
    [url |-> b.url, expirationDate |-> expirationDate(b.expiresIn, t), meta |-> meta]

\* lines 156-158: the preview fields of the request, or the resolved ones
FinalMeta(cache, b, page, t) ==
    IF AllGiven(b.meta) THEN [meta |-> b.meta, cache |-> cache]
    ELSE fetchOpenGraphMetadata(cache, b.url, page, t)

\* the custom code is checked before the duplicate scan
CreateUrl_ConflictFirst(m, cache, b, page, gen, t) ==
    LET og == FinalMeta(cache, b, page, t)
        existing == existingShortCode(m, b.url)
        shortCode == IF b.customCode # Undefined THEN b.customCode ELSE gen
    IN  IF CustomTaken(m, b.customCode)
        THEN [status |-> 409, code |-> None, mappings |-> m, cache |-> og.cache]
        ELSE IF existing # None
        THEN [status |-> 200, code |-> existing, mappings |-> m, cache |-> og.cache]
        ELSE [status |-> 201, code |-> shortCode,
              mappings |-> KVPut(m, shortCode, NewRecord(b, og.meta, t)),
              cache |-> og.cache]

\* lines 155-193 for a valid body: the response and the stores left.
\* page: what a metadata fetch would meet; gen: what nanoid(8) would return
CreateUrl(m, cache, b, page, gen, t) ==
    LET og == FinalMeta(cache, b, page, t)
        existing == existingShortCode(m, b.url)
        shortCode == IF b.customCode # Undefined THEN b.customCode ELSE gen
    IN  IF existing # None
        THEN [status |-> 200, code |-> existing, mappings |-> m, cache |-> og.cache]
        ELSE IF CustomTaken(m, b.customCode)
        THEN [status |-> 409, code |-> None, mappings |-> m, cache |-> og.cache]
        ELSE [status |-> 201, code |-> shortCode,
              mappings |-> KVPut(m, shortCode, NewRecord(b, og.meta, t)),
              cache |-> og.cache]

\* nanoid(8) is drawn only when a code is generated
WillGenerate(m, b) ==
    existingShortCode(m, b.url) = None /\ b.customCode = Undefined

-----------------------------------------------------------------------------
(* Requests.  resp is the request handled last with its answer: the route    *)
(* (op), the inputs that name it, the time it was handled at, the status,    *)
(* the short code (of the path, or of the shortUrl a create answers with),   *)
(* the Location or og:url served, and the clickCount reported; found tells   *)
(* whether a record was stored under the code of the path when it arrived,   *)
(* page what the metadata fetch of the request met (None: it made no fetch), *)
(* token the credential of a request the middleware answered itself.         *)

UserAgents == {"Mozilla/5.0", "facebookexternalhit/1.1"}

\* line 259
IsBot(userAgent) == userAgent = "facebookexternalhit/1.1"

Request(op, t) ==
    [op |-> op, at |-> t, ip |-> None, token |-> None, code |-> None, url |-> None,
     customCode |-> None, expiresIn |-> Null, userAgent |-> None, host |-> None,
     found |-> FALSE, page |-> None, meta |-> NoMeta,
     status |-> 0, location |-> None, clickCount |-> 0]

\* the limiter's history of one client: the requests let through (n) since the
\* one (at start) that came a full window after the last one let through
NoneAllowed == [start |-> 0, last |-> 0, n |-> 0]

WindowOver(a, t) == a.n = 0 \/ t >= a.last + window

LetThrough(a, t) ==
    IF WindowOver(a, t) THEN [start |-> t, last |-> t, n |-> 1]
    ELSE [start |-> a.start, last |-> t, n |-> a.n + 1]

\* the exploration handles MaxRequests requests; bookkeeping of each of them
Open == nreq < MaxRequests

Answer(r) ==
    /\ nreq' = nreq + 1
    /\ prev' = resp
    /\ resp' = r
    /\ was' = [mappings |-> mappings, analytics |-> analytics, cache |-> ogCache,
               domains |-> customDomains, allowed |-> allowed]
    /\ served' = IF r.op = "resolve" /\ ~IsBot(r.userAgent) /\ r.status = 302
                  THEN served + 1 ELSE served

\* a request of /api/* that the middleware answers itself (401, 429): the
\* middleware is registered for every path and method below /api/, so the
\* route the request was meant for plays no part
Reject ==
    /\ Open
    /\ \E ip \in Ips, token \in Tokens :
        LET m == Middleware(analytics, token, ip, now) IN
        /\ m.status # 0
        /\ Answer([Request("api", now) EXCEPT !.ip = ip, !.token = token,
                                              !.status = m.status])
        /\ analytics' = m.store
        /\ UNCHANGED <<customDomains, inflight, now, mappings, ogCache, redirects, allowed>>

\* a request of /api/* that the middleware lets through to its handler
Passes(token, ip) ==
    /\ Middleware(analytics, token, ip, now).status = 0
    /\ allowed' = [allowed EXCEPT ![ip] = LetThrough(@, now)]

\* the body is validated before the limiter counts the request
Limited_Unchanged(ip) == analytics

Limited(ip) == Middleware(analytics, "k1", ip, now).store

\* POST /api/urls
\* the handler for a body that passes the validation
CreateValid(bodies) ==
    \E ip \in Ips, b \in bodies :
    \E page \in IF NeedsFetch(ogCache, b) THEN Pages ELSE {"tags"} :
    \E gen \in IF WillGenerate(mappings, b) THEN GenCodes ELSE {None} :
        LET r == CreateUrl(mappings, ogCache, b, page, gen, now) IN
        /\ Passes("k1", ip)
        /\ createUrlSchema(b)
        /\ Answer([Request("create", now) EXCEPT !.ip = ip, !.url = b.url,
                        !.customCode = b.customCode, !.expiresIn = b.expiresIn,
                        !.meta = b.meta,
                        !.page = IF NeedsFetch(ogCache, b) THEN page ELSE None,
                        !.status = r.status, !.code = r.code])
        /\ mappings' = r.mappings
        /\ ogCache' = r.cache
        /\ analytics' = Limited(ip)
        /\ UNCHANGED <<customDomains, inflight, now, redirects>>

Create ==
    /\ Open
    /\ \/ \E ip \in Ips, b \in InvalidBodies :
           /\ Passes("k1", ip)
           /\ ~createUrlSchema(b)
           /\ Answer([Request("create", now) EXCEPT !.ip = ip, !.url = b.url,
                           !.customCode = b.customCode, !.expiresIn = b.expiresIn,
                           !.status = 400])
           /\ analytics' = Limited(ip)
           /\ UNCHANGED <<customDomains, inflight, now, mappings, ogCache, redirects>>
       \/ CreateValid(ValidBodies)

\* line 200: the record written, JSON.stringify({ url })
\* the record written carries an expiration
UpdatedRecord_Expiring(url) ==
    [url |-> url, expirationDate |-> expirationDate(MinExpiresIn, 0), meta |-> NoMeta]

UpdatedRecord(url) == [url |-> url, expirationDate |-> Null, meta |-> NoMeta]

\* PUT /api/urls/:shortCode
Update ==
    /\ Open
    /\ \/ \E ip \in Ips, shortCode \in CustomCodes :
           /\ Passes("k1", ip)
           /\ ~updateUrlSchema(BadUrl)
           /\ Answer([Request("update", now) EXCEPT !.ip = ip, !.code = shortCode,
                           !.url = BadUrl, !.status = 400])
           /\ analytics' = Limited(ip)
           /\ UNCHANGED <<customDomains, inflight, now, mappings, ogCache, redirects>>
       \/ \E ip \in Ips, shortCode \in Keys, url \in Urls :
           /\ Passes("k1", ip)
           /\ updateUrlSchema(url)
           /\ Answer([Request("update", now) EXCEPT !.ip = ip, !.code = shortCode,
                           !.found = KVHas(mappings, shortCode),
                           !.url = url, !.status = 200])
           /\ mappings' = KVPut(mappings, shortCode, UpdatedRecord(url))
           /\ analytics' = Limited(ip)
           /\ UNCHANGED <<customDomains, inflight, now, ogCache, redirects>>

\* the delete is lost
DeleteUrl_Keep(store, shortCode) == store

\* lines 207-208: the two deletes
DeleteUrl(store, shortCode) == KVDelete(store, shortCode)

\* DELETE /api/urls/:shortCode
Delete ==
    /\ Open
    /\ \/ \E ip \in Ips, shortCode \in Keys :
           /\ Passes("k1", ip)
           /\ Answer([Request("delete", now) EXCEPT !.ip = ip, !.code = shortCode,
                           !.found = KVHas(mappings, shortCode), !.status = 200])
           /\ mappings' = DeleteUrl(mappings, shortCode)
           /\ analytics' = DeleteUrl(Limited(ip), shortCode)
           /\ redirects' = [redirects EXCEPT ![shortCode] = 0]
           /\ UNCHANGED <<customDomains, inflight, now, ogCache>>

\* html-escaper escape() on the modelled URLs: '&' becomes '&amp;'
escape(s) == IF s = "https://b.io/?p=1&q=2" THEN "https://b.io/?p=1&amp;q=2" ELSE s

\* GET /:shortCode/og
Preview ==
    \E shortCode \in Keys :
        /\ Open
        /\ IF ~KVHas(mappings, shortCode)
           THEN Answer([Request("og", now) EXCEPT !.code = shortCode, !.status = 404])
           ELSE Answer([Request("og", now) EXCEPT !.code = shortCode, !.status = 200,
                             !.found = TRUE,
                             !.location = escape(mappings[shortCode].url)])
        /\ UNCHANGED <<customDomains, inflight, now, mappings, analytics, ogCache, redirects, allowed>>

\* the click counter a redirect reads: parseInt(clickCount || '0')
ClickCount(an, shortCode) == IF KVHas(an, shortCode) THEN an[shortCode].val ELSE 0

\* lines 272-276: the read-then-write increment
RecordClick(an, shortCode) ==
    KVPut(an, shortCode, [val |-> ClickCount(an, shortCode) + 1, exp |-> NoTtl])

\* the record is dead from the instant of expiresAt on
Expired_AtExpiry(rec, t) == rec.expirationDate # Null /\ DateNow(t) >= rec.expirationDate

\* line 268
Expired(rec, t) == rec.expirationDate # Null /\ DateNow(t) > rec.expirationDate

\* GET /:shortCode
Resolve ==
    /\ Open
    /\ \E shortCode \in Keys, userAgent \in UserAgents :
        LET r == [Request("resolve", now) EXCEPT !.code = shortCode,
                                                 !.found = KVHas(mappings, shortCode),
                                                 !.userAgent = userAgent] IN
        \/ /\ IsBot(userAgent)
           /\ Answer([r EXCEPT !.status = 302, !.location = "/" \o shortCode \o "/og"])
           /\ UNCHANGED <<customDomains, inflight, now, mappings, analytics, ogCache, redirects, allowed>>
        \/ /\ ~IsBot(userAgent)
           /\ ~KVHas(mappings, shortCode)
           /\ Answer([r EXCEPT !.status = 404])
           /\ UNCHANGED <<customDomains, inflight, now, mappings, analytics, ogCache, redirects, allowed>>
        \/ /\ ~IsBot(userAgent)
           /\ KVHas(mappings, shortCode)
           /\ Expired(mappings[shortCode], now)
           /\ Answer([r EXCEPT !.status = 404])
           /\ mappings' = KVDelete(mappings, shortCode)
           /\ UNCHANGED <<customDomains, inflight, now, analytics, ogCache, redirects, allowed>>
        \/ /\ ~IsBot(userAgent)
           /\ KVHas(mappings, shortCode)
           /\ ~Expired(mappings[shortCode], now)
           /\ Answer([r EXCEPT !.status = 302, !.location = mappings[shortCode].url])
           /\ analytics' = RecordClick(analytics, shortCode)
           /\ redirects' = [redirects EXCEPT ![shortCode] = @ + 1]
           /\ UNCHANGED <<customDomains, inflight, now, mappings, ogCache, allowed>>

\* GET /api/analytics/:shortCode
Analytics ==
    /\ Open
    /\ \/ \E ip \in Ips, shortCode \in Keys :
           /\ Passes("k1", ip)
           /\ Answer([Request("analytics", now) EXCEPT !.ip = ip, !.code = shortCode,
                           !.found = KVHas(mappings, shortCode), !.status = 200,
                           !.clickCount = ClickCount(Limited(ip), shortCode)])
           /\ analytics' = Limited(ip)
           /\ UNCHANGED <<customDomains, inflight, now, mappings, ogCache, redirects>>

\* line 293: the aggregate key, which the JSON body carries as it is stored
\* (null when absent)
TotalClicks(an) == IF KVHas(an, "total_clicks") THEN an["total_clicks"].val ELSE Null

\* GET /api/analytics
AggregateAnalytics ==
    /\ Open
    /\ \/ \E ip \in Ips :
           /\ Passes("k1", ip)
           /\ Answer([Request("aggregate", now) EXCEPT !.ip = ip, !.status = 200,
                           !.clickCount = TotalClicks(Limited(ip))])
           /\ analytics' = Limited(ip)
           /\ UNCHANGED <<customDomains, inflight, now, mappings, ogCache, redirects>>

\* time passes; the KV store drops the keys whose TTL has run out
TickStep == window

Tick ==
    /\ now + TickStep <= MaxTime
    /\ now' = now + TickStep
    /\ analytics' = KVExpire(analytics, now')
    /\ ogCache' = KVExpire(ogCache, now')
    /\ UNCHANGED <<mappings, customDomains, inflight,
                   resp, prev, was, redirects, served, allowed, nreq>>

Next ==
    \/ Reject \/ Create \/ Update \/ Delete \/ Preview \/ Resolve
    \/ Analytics \/ AggregateAnalytics \/ Tick

-----------------------------------------------------------------------------
(* The initial states: the stores as one earlier request left them.  That    *)
(* request was handled at time 0 by a client whose rate-limit counter has    *)
(* run out since (the clock stands at one window), or it is the last of      *)
(* limit - 1 requests that the modelled client has just made.                *)

SeedBodies ==
    {Body("https://a.io/x", c, e, CallerMeta) : c \in CustomCodes, e \in ExpiresIns}

SeedStores ==
    {[mappings |-> << >>, cache |-> << >>]}
    \cup {[mappings |-> r.mappings, cache |-> r.cache] :
            r \in {CreateUrl(<< >>, << >>, b, "tags", None, 0) : b \in SeedBodies}}
    \cup {[mappings |-> KVPut(<< >>, rateLimitKey("1.2.3.4"), UpdatedRecord("https://a.io/x")),
           cache |-> << >>]}

\* all initial states share the bookkeeping; the requests that a counter of
\* the store stands for were let through from first on, the last of them now
StartAfter(s, an, first) ==
    /\ now = window
    /\ mappings = s.mappings
    /\ ogCache = s.cache
    /\ customDomains = << >>
    /\ analytics = an
    /\ allowed = [ip \in Ips |->
                    IF KVHas(an, rateLimitKey(ip))
                    THEN [start |-> first, last |-> window, n |-> an[rateLimitKey(ip)].val]
                    ELSE NoneAllowed]
    /\ resp = Request("start", 0)
    /\ prev = Request("start", 0)
    /\ was = [mappings |-> mappings, analytics |-> analytics, cache |-> ogCache,
              domains |-> customDomains, allowed |-> allowed]
    /\ redirects = [k \in Keys |-> 0]
    /\ served = 0
    /\ nreq = 0

Start(s, an) == StartAfter(s, an, window)

\* no request is being handled while the sequential requests run
NoneInFlight == << >>

Init ==
    /\ \E s \in SeedStores : Start(s, << >>)
    /\ inflight = NoneInFlight

Spec == Init /\ [][Next]_vars

\* the rate limiter's claims start where the client has no counter, or has
\* just made limit - 1 requests
SeedCounters ==
    {<< >>,
     KVPut(<< >>, rateLimitKey("1.2.3.4"), [val |-> limit - 1, exp |-> 2 * window])}

InitRL ==
    /\ \E an \in SeedCounters : Start([mappings |-> << >>, cache |-> << >>], an)
    /\ inflight = NoneInFlight

SpecRL == InitRL /\ [][Next]_vars

\* the requests behind a counter came all at once, or spread over half a window
SeedFirsts == {window, window \div 2}

InitRW ==
    /\ \E an \in SeedCounters, first \in SeedFirsts :
          StartAfter([mappings |-> << >>, cache |-> << >>], an, first)
    /\ inflight = NoneInFlight

\* requests of /api/* that read the stores only
NextRW == Reject \/ Analytics \/ AggregateAnalytics \/ Tick

SpecRW == InitRW /\ [][NextRW]_vars

\* records that were resolved once, before any expiration, after their create
SeedClicks(m) == [k \in DOMAIN m |-> [val |-> 1, exp |-> NoTtl]]

InitLC ==
    /\ \E s \in SeedStores : Start(s, SeedClicks(s.mappings))
    /\ inflight = NoneInFlight

SpecLC == InitLC /\ [][Next]_vars

-----------------------------------------------------------------------------
(* Creates with and without preview fields, over the life of an entry of the *)
(* metadata cache: the clock moves in halves of the cache TTL.               *)

\* a custom code comes with the bodies that leave the preview to the service
PreviewBodies ==
    {Body(u, c, Null, NoMeta) : u \in Urls, c \in CustomCodes \cup {Undefined}}
    \cup {Body(u, Undefined, Null, m) : u \in Urls, m \in {CallerMeta, TitleOnly}}

CreatePreview == Open /\ CreateValid(PreviewBodies)

CacheTick == CacheTtl \div 2

TickCache ==
    /\ now + CacheTick <= window + MaxCacheTicks * CacheTick
    /\ now' = now + CacheTick
    /\ analytics' = KVExpire(analytics, now')
    /\ ogCache' = KVExpire(ogCache, now')
    /\ UNCHANGED <<mappings, customDomains, inflight,
                   resp, prev, was, redirects, served, allowed, nreq>>

NextOG == CreatePreview \/ TickCache

\* the stores that creates without expiration start from: empty, or a record without expiration
\* under the custom code
SeedStoresCR ==
    {s \in SeedStores :
        \A k \in DOMAIN s.mappings :
            k \in CustomCodes /\ s.mappings[k].expirationDate = Null}

InitOG ==
    /\ \E s \in SeedStoresCR : Start(s, << >>)
    /\ inflight = NoneInFlight

SpecOG == InitOG /\ [][NextOG]_vars

-----------------------------------------------------------------------------
(* The worker with custom domains (src/unnamed/part_004): POST /api/domains  *)
(* fills CUSTOM_DOMAINS, and GET /:shortCode falls back on the entry of the  *)
(* inbound host when no record is stored under the code.                     *)

\* values of the host header; the first carries no port
Hosts == {"sho.rt", "sho.rt:8787"}

\* the domain field of a request: z.string().url() wants a string that
\* new URL() parses, which "sho.rt" (no scheme) is not, while in "sho.rt:8787"
\* the text before the colon reads as a scheme
Domains == {"https://sho.rt", "sho.rt:8787"}
BadDomain == "sho.rt"

customDomainSchema(domain, target) == domain \in Domains /\ IsUrl(target)

\* POST /api/domains
AddDomain ==
    /\ Open
    /\ \/ \E ip \in Ips :
           /\ Passes("k1", ip)
           /\ ~customDomainSchema(BadDomain, "https://a.io/x")
           /\ Answer([Request("domain", now) EXCEPT !.ip = ip, !.host = BadDomain,
                           !.url = "https://a.io/x", !.status = 400])
           /\ analytics' = Limited(ip)
           /\ UNCHANGED <<customDomains, inflight, now, mappings, ogCache, redirects>>
       \/ \E ip \in Ips, domain \in Domains, target \in Urls :
           /\ Passes("k1", ip)
           /\ customDomainSchema(domain, target)
           /\ Answer([Request("domain", now) EXCEPT !.ip = ip, !.host = domain,
                           !.url = target, !.status = 201])
           /\ customDomains' = KVPut(customDomains, domain, target)
           /\ analytics' = Limited(ip)
           /\ UNCHANGED <<inflight, now, mappings, ogCache, redirects>>

\* the registry is not consulted
DomainTarget_Skipped(domains, host) == None

\* part_004 lines 277-283: the target registered for the inbound host, if any
DomainTarget(domains, host) ==
    IF host # Undefined /\ host # "" /\ KVHas(domains, host) /\ domains[host] # ""
    THEN domains[host] ELSE None

\* GET /:shortCode of part_004
ResolveCD ==
    /\ Open
    /\ \E shortCode \in Keys, userAgent \in UserAgents, host \in Hosts \cup {Undefined} :
        LET r == [Request("resolve", now) EXCEPT !.code = shortCode, !.host = host,
                                                 !.found = KVHas(mappings, shortCode),
                                                 !.userAgent = userAgent]
            target == DomainTarget(customDomains, host) IN
        \/ /\ IsBot(userAgent)
           /\ Answer([r EXCEPT !.status = 302, !.location = "/" \o shortCode \o "/og"])
           /\ UNCHANGED <<customDomains, inflight, now, mappings, analytics, ogCache, redirects, allowed>>
        \/ /\ ~IsBot(userAgent)
           /\ ~KVHas(mappings, shortCode)
           /\ target # None
           /\ Answer([r EXCEPT !.status = 302, !.location = target])
           /\ UNCHANGED <<customDomains, inflight, now, mappings, analytics, ogCache, redirects, allowed>>
        \/ /\ ~IsBot(userAgent)
           /\ ~KVHas(mappings, shortCode)
           /\ target = None
           /\ Answer([r EXCEPT !.status = 404])
           /\ UNCHANGED <<customDomains, inflight, now, mappings, analytics, ogCache, redirects, allowed>>
        \/ /\ ~IsBot(userAgent)
           /\ KVHas(mappings, shortCode)
           /\ Expired(mappings[shortCode], now)
           /\ Answer([r EXCEPT !.status = 404])
           /\ mappings' = KVDelete(mappings, shortCode)
           /\ UNCHANGED <<customDomains, inflight, now, analytics, ogCache, redirects, allowed>>
        \/ /\ ~IsBot(userAgent)
           /\ KVHas(mappings, shortCode)
           /\ ~Expired(mappings[shortCode], now)
           /\ Answer([r EXCEPT !.status = 302, !.location = mappings[shortCode].url])
           /\ analytics' = RecordClick(analytics, shortCode)
           /\ redirects' = [redirects EXCEPT ![shortCode] = @ + 1]
           /\ UNCHANGED <<customDomains, inflight, now, mappings, ogCache, allowed>>

NextCD == Reject \/ AddDomain \/ ResolveCD \/ Tick

SpecCD == Init /\ [][NextCD]_vars

-----------------------------------------------------------------------------
(* Concurrent resolves.  Every request is handled by an invocation of its    *)
(* own, and an invocation can be overtaken at each await of the handler of   *)
(* GET /:shortCode: the get of the record (262), the delete of an expired    *)
(* record (269), the get of the click counter (272) and its put (273).       *)
(* inflight[p] is the position of invocation p: the code it resolves, the    *)
(* record and the counter value it has read, and its answer once it is done. *)

Procs == 1..MaxProcs

\* op is the route of the invocation; passed tells that a resolve has found its
\* record live (line 268) since the click counter of its code was last removed
Idle == [pc |-> "idle", op |-> "resolve", code |-> None, url |-> None, read |-> 0,
         status |-> 0, passed |-> FALSE]

\* lines 257-268: the record is read and, when there is one, its expiry checked
ResolveGet(p) ==
    \E shortCode \in Keys :
        /\ inflight[p].pc = "idle"
        /\ inflight' = [inflight EXCEPT ![p] =
               IF ~KVHas(mappings, shortCode)
               THEN [Idle EXCEPT !.pc = "done", !.code = shortCode, !.status = 404]
               ELSE [Idle EXCEPT !.code = shortCode, !.url = mappings[shortCode].url,
                                 !.passed = ~Expired(mappings[shortCode], now),
                                 !.pc = IF Expired(mappings[shortCode], now)
                                        THEN "expired" ELSE "live"]]
        /\ UNCHANGED <<now, mappings, analytics, ogCache, customDomains,
                       resp, prev, was, redirects, served, allowed, nreq>>

\* lines 269-270: the record found expired is deleted
ResolveDelete(p) ==
    /\ inflight[p].pc = "expired"
    /\ mappings' = KVDelete(mappings, inflight[p].code)
    /\ inflight' = [inflight EXCEPT ![p].pc = "done", ![p].status = 404]
    /\ UNCHANGED <<now, analytics, ogCache, customDomains,
                   resp, prev, was, redirects, served, allowed, nreq>>

\* line 272: the click counter is read
ResolveGetClicks(p) ==
    /\ inflight[p].pc = "live"
    /\ inflight' = [inflight EXCEPT ![p].pc = "counted",
                                    ![p].read = ClickCount(analytics, inflight[p].code)]
    /\ UNCHANGED <<now, mappings, analytics, ogCache, customDomains,
                   resp, prev, was, redirects, served, allowed, nreq>>

\* the counter is read again when it is written: an atomic increment
ResolvePutClicks_Reread(p) ==
    /\ inflight[p].pc = "counted"
    /\ analytics' = RecordClick(analytics, inflight[p].code)
    /\ inflight' = [inflight EXCEPT ![p].pc = "done", ![p].status = 302]
    /\ UNCHANGED <<now, mappings, ogCache, customDomains,
                   resp, prev, was, redirects, served, allowed, nreq>>

\* lines 273-277: the value read, plus one, is written and the redirect answered
ResolvePutClicks(p) ==
    /\ inflight[p].pc = "counted"
    /\ analytics' = KVPut(analytics, inflight[p].code,
                          [val |-> inflight[p].read + 1, exp |-> NoTtl])
    /\ inflight' = [inflight EXCEPT ![p].pc = "done", ![p].status = 302]
    /\ UNCHANGED <<now, mappings, ogCache, customDomains,
                   resp, prev, was, redirects, served, allowed, nreq>>

NextCC ==
    \/ \E p \in Procs : ResolveGet(p)
    \/ \E p \in Procs : ResolveDelete(p)
    \/ \E p \in Procs : ResolveGetClicks(p)
    \/ \E p \in Procs : ResolvePutClicks(p)
    \/ Tick

InitCC ==
    /\ \E s \in SeedStores : Start(s, << >>)
    /\ inflight = [p \in Procs |-> Idle]

SpecCC == InitCC /\ [][NextCC]_vars

-----------------------------------------------------------------------------
(* Resolves overtaken by updates and deletes.  An invocation of PUT or       *)
(* DELETE /api/urls/:shortCode passes the middleware (31-57), whose awaits   *)
(* touch the counter of the client only and are taken in one step here, and  *)
(* then runs its handler await by await: the put of the record (200), or the *)
(* delete of the record (207) followed by the delete of the counter (208).   *)

\* lines 31-57: an update or a delete is let through by the middleware
Admit(p) ==
    \E ip \in Ips, shortCode \in CustomCodes :
    \E call \in {[op |-> "update", url |-> u] : u \in Urls}
                \cup {[op |-> "delete", url |-> None]} :
        LET m == Middleware(analytics, "k1", ip, now) IN
        /\ inflight[p].pc = "idle"
        /\ m.status = 0
        /\ analytics' = m.store
        /\ inflight' = [inflight EXCEPT ![p] =
               [Idle EXCEPT !.pc = "admitted", !.op = call.op, !.code = shortCode,
                            !.url = call.url]]
        /\ UNCHANGED <<now, mappings, ogCache, customDomains,
                       resp, prev, was, redirects, served, allowed, nreq>>

\* lines 198-201
UpdatePut(p) ==
    /\ inflight[p].pc = "admitted" /\ inflight[p].op = "update"
    /\ mappings' = KVPut(mappings, inflight[p].code, UpdatedRecord(inflight[p].url))
    /\ inflight' = [inflight EXCEPT ![p].pc = "done", ![p].status = 200]
    /\ UNCHANGED <<now, analytics, ogCache, customDomains,
                   resp, prev, was, redirects, served, allowed, nreq>>

\* lines 206-207
DeleteMapping(p) ==
    /\ inflight[p].pc = "admitted" /\ inflight[p].op = "delete"
    /\ mappings' = DeleteUrl(mappings, inflight[p].code)
    /\ inflight' = [inflight EXCEPT ![p].pc = "unmapped"]
    /\ UNCHANGED <<now, analytics, ogCache, customDomains,
                   resp, prev, was, redirects, served, allowed, nreq>>

\* lines 208-209: the counter goes, and with it the resolves it had counted;
\* a resolve still on its way to the counter keeps its pass
DeleteClicks(p) ==
    /\ inflight[p].pc = "unmapped"
    /\ analytics' = DeleteUrl(analytics, inflight[p].code)
    /\ inflight' = [q \in Procs |->
           IF q = p THEN [inflight[p] EXCEPT !.pc = "done", !.status = 200]
           ELSE IF inflight[q].code = inflight[p].code /\ inflight[q].pc = "done"
           THEN [inflight[q] EXCEPT !.passed = FALSE]
           ELSE inflight[q]]
    /\ UNCHANGED <<now, mappings, ogCache, customDomains,
                   resp, prev, was, redirects, served, allowed, nreq>>

NextCU ==
    \/ \E p \in Procs : ResolveGet(p)
    \/ \E p \in Procs : ResolveDelete(p)
    \/ \E p \in Procs : ResolveGetClicks(p)
    \/ \E p \in Procs : ResolvePutClicks(p)
    \/ \E p \in Procs : Admit(p)
    \/ \E p \in Procs : UpdatePut(p)
    \/ \E p \in Procs : DeleteMapping(p)
    \/ \E p \in Procs : DeleteClicks(p)
    \/ Tick

SpecCU == InitCC /\ [][NextCU]_vars

-----------------------------------------------------------------------------
(* Concurrent creates.  An invocation of POST /api/urls passes the           *)
(* middleware and the validation (one step, as above; its body carries the   *)
(* three preview fields, so line 156 fetches nothing) and then runs the      *)
(* handler await by await: the list of the keys (159), the gets of the keys  *)
(* listed (160-174, issued together), the get of the custom code (181) and   *)
(* the put of the record (188).  seen is the set of the creates that had     *)
(* answered 201 when the invocation listed the keys.                         *)

CreateBodies ==
    {Body(u, c, Null, CallerMeta) : u \in Urls, c \in CustomCodes \cup {Undefined}}

IdleCreate ==
    [pc |-> "idle", op |-> "create", url |-> None, customCode |-> Undefined,
     keys |-> {}, code |-> None, status |-> 0, seen |-> {}]

\* the creates that have answered 201
Created == {p \in Procs : inflight[p].pc = "done" /\ inflight[p].status = 201}

\* the records stored under the keys listed
Listed(m, keys) == [k \in DOMAIN m \cap keys |-> m[k]]

\* invocations are numbered in the order of their arrival
NextToArrive(p) ==
    inflight[p].pc = "idle" /\ \A q \in Procs : q < p => inflight[q].pc # "idle"

\* lines 31-57 and the validation of line 154
CreateAdmit(p) ==
    \E ip \in Ips, b \in CreateBodies :
        LET m == Middleware(analytics, "k1", ip, now) IN
        /\ NextToArrive(p)
        /\ m.status = 0
        /\ createUrlSchema(b)
        /\ analytics' = m.store
        /\ inflight' = [inflight EXCEPT ![p] =
               [IdleCreate EXCEPT !.pc = "admitted", !.url = b.url,
                                  !.customCode = b.customCode]]
        /\ UNCHANGED <<now, mappings, ogCache, customDomains,
                       resp, prev, was, redirects, served, allowed, nreq>>

\* line 159
CreateList(p) ==
    /\ inflight[p].pc = "admitted"
    /\ inflight' = [inflight EXCEPT ![p].pc = "listed", ![p].keys = DOMAIN mappings,
                                    ![p].seen = Created]
    /\ UNCHANGED <<now, mappings, analytics, ogCache, customDomains,
                   resp, prev, was, redirects, served, allowed, nreq>>

\* lines 160-178: the records of the keys listed are read and compared
CreateScan(p) ==
    LET existing == existingShortCode(Listed(mappings, inflight[p].keys), inflight[p].url) IN
    /\ inflight[p].pc = "listed"
    /\ inflight' = [inflight EXCEPT ![p] =
           IF existing # None
           THEN [@ EXCEPT !.pc = "done", !.status = 200, !.code = existing]
           ELSE [@ EXCEPT !.pc = "scanned"]]
    /\ UNCHANGED <<now, mappings, analytics, ogCache, customDomains,
                   resp, prev, was, redirects, served, allowed, nreq>>

\* lines 180-186: the custom code is looked up, or a code is drawn
CreateCheck(p) ==
    \E gen \in IF inflight[p].customCode = Undefined THEN GenCodes ELSE {None} :
        /\ inflight[p].pc = "scanned"
        /\ inflight' = [inflight EXCEPT ![p] =
               IF CustomTaken(mappings, inflight[p].customCode)
               THEN [@ EXCEPT !.pc = "done", !.status = 409]
               ELSE [@ EXCEPT !.pc = "checked",
                              !.code = IF inflight[p].customCode # Undefined
                                       THEN inflight[p].customCode ELSE gen]]
        /\ UNCHANGED <<now, mappings, analytics, ogCache, customDomains,
                       resp, prev, was, redirects, served, allowed, nreq>>

\* lines 187-193
CreatePut(p) ==
    /\ inflight[p].pc = "checked"
    /\ mappings' = KVPut(mappings, inflight[p].code,
                         NewRecord(Body(inflight[p].url, inflight[p].customCode, Null, CallerMeta),
                                   CallerMeta, now))
    /\ inflight' = [inflight EXCEPT ![p].pc = "done", ![p].status = 201]
    /\ UNCHANGED <<now, analytics, ogCache, customDomains,
                   resp, prev, was, redirects, served, allowed, nreq>>

NextCR ==
    \/ \E p \in Procs : CreateAdmit(p)
    \/ \E p \in Procs : CreateList(p)
    \/ \E p \in Procs : CreateScan(p)
    \/ \E p \in Procs : CreateCheck(p)
    \/ \E p \in Procs : CreatePut(p)

InitCR ==
    /\ \E s \in SeedStoresCR : Start(s, << >>)
    /\ inflight = [p \in Procs |-> IdleCreate]

SpecCR == InitCR /\ [][NextCR]_vars

-----------------------------------------------------------------------------
(* Concurrent requests of one client at the rate limiter.  Each invocation   *)
(* of GET /api/analytics, authenticated, runs the limiter await by await:    *)
(* the get of the counter (49-53), the put of the value read plus one        *)
(* (54-56), and then the handler (292-296), which reads and writes nothing   *)
(* that the limiter uses.                                                    *)

IdleApi == [pc |-> "idle", op |-> "aggregate", ip |-> None, read |-> 0, status |-> 0]

\* the requests the limiter has let through
Admitted == {p \in Procs : inflight[p].pc = "admitted"
                             \/ (inflight[p].pc = "done" /\ inflight[p].status = 200)}

\* lines 45-53
LimiterGet(p) ==
    \E ip \in Ips :
        /\ NextToArrive(p)
        /\ Authenticated("k1")
        /\ inflight' = [inflight EXCEPT ![p] =
               IF RateCount(analytics, ip) >= limit
               THEN [IdleApi EXCEPT !.pc = "done", !.ip = ip, !.status = 429,
                                    !.read = RateCount(analytics, ip)]
               ELSE [IdleApi EXCEPT !.pc = "counted", !.ip = ip,
                                    !.read = RateCount(analytics, ip)]]
        /\ UNCHANGED <<now, mappings, analytics, ogCache, customDomains,
                       resp, prev, was, redirects, served, allowed, nreq>>

\* the counter is read again when it is written: an atomic increment
LimiterPut_Reread(p) ==
    /\ inflight[p].pc = "counted"
    /\ analytics' = rateLimiter_CountRejected(analytics, inflight[p].ip, now).store
    /\ allowed' = [allowed EXCEPT ![inflight[p].ip] = LetThrough(@, now)]
    /\ inflight' = [inflight EXCEPT ![p].pc = "admitted"]
    /\ UNCHANGED <<now, mappings, ogCache, customDomains,
                   resp, prev, was, redirects, served, nreq>>

\* lines 54-57
LimiterPut(p) ==
    /\ inflight[p].pc = "counted"
    /\ analytics' = KVPut(analytics, rateLimitKey(inflight[p].ip),
                          [val |-> inflight[p].read + 1, exp |-> now + window])
    /\ allowed' = [allowed EXCEPT ![inflight[p].ip] = LetThrough(@, now)]
    /\ inflight' = [inflight EXCEPT ![p].pc = "admitted"]
    /\ UNCHANGED <<now, mappings, ogCache, customDomains,
                   resp, prev, was, redirects, served, nreq>>

\* lines 292-296
Handle(p) ==
    /\ inflight[p].pc = "admitted"
    /\ inflight' = [inflight EXCEPT ![p].pc = "done", ![p].status = 200]
    /\ UNCHANGED <<now, mappings, analytics, ogCache, customDomains,
                   resp, prev, was, redirects, served, allowed, nreq>>

NextCL ==
    \/ \E p \in Procs : LimiterGet(p)
    \/ \E p \in Procs : LimiterPut(p)
    \/ \E p \in Procs : Handle(p)
    \/ Tick

InitCL ==
    /\ \E an \in SeedCounters : Start([mappings |-> << >>, cache |-> << >>], an)
    /\ inflight = [p \in Procs |-> IdleApi]

SpecCL == InitCL /\ [][NextCL]_vars

-----------------------------------------------------------------------------
(* The claims.  A request was handled by its route when the middleware and   *)
(* the body validation let it through.                                       *)

Handled(r) == r.status \notin {0, 400, 401, 429}

Browser(r) == r.op = "resolve" /\ ~IsBot(r.userAgent)

\* some record of the store maps the URL
Mapped(m, url) == \E k \in DOMAIN m : m[k].url = url

\* C1: a create for u with no custom code, followed at once by a non-bot
\* resolve of the code it returned, ends in a redirect to exactly u.
C1_CreateThenResolve ==
    ( /\ prev.op = "create" /\ Handled(prev)
      /\ prev.customCode = Undefined /\ prev.expiresIn = Null
      /\ Browser(resp) /\ resp.code = prev.code /\ resp.at = prev.at )
    => (resp.status = 302 /\ resp.location = prev.url)

\* C2: of two successive creates for the same URL with no custom code the
\* second answers 200 with the code of the first and writes no mapping record;
\* a create for a URL that no record maps answers 201 and stores the URL under
\* the code it returns.
C2_Dedup ==
    /\ ( /\ prev.op = "create" /\ prev.status \in {200, 201}
         /\ prev.customCode = Undefined
         /\ resp.op = "create" /\ Handled(resp)
         /\ resp.customCode = Undefined /\ resp.url = prev.url )
       => (resp.status = 200 /\ resp.code = prev.code /\ mappings = was.mappings)
    /\ ( /\ resp.op = "create" /\ Handled(resp) /\ resp.customCode = Undefined
         /\ ~Mapped(was.mappings, resp.url) )
       => ( /\ resp.status = 201
            /\ KVHas(mappings, resp.code)
            /\ mappings[resp.code].url = resp.url )

C2_Witness ==
    /\ prev.op = "create" /\ prev.status = 201 /\ prev.customCode = Undefined
    /\ resp.op = "create" /\ resp.status = 200 /\ resp.customCode = Undefined
    /\ resp.url = prev.url /\ resp.code = prev.code
    /\ Cardinality(DOMAIN mappings) = 2

\* C3: a create with a custom code c under which a record is stored, for a
\* URL that no record maps, answers 409 and leaves the mapping store as it
\* was; a non-bot resolve of c after it redirects to the URL of the record
\* stored under c (unless that record has expired).
C3_CustomCodeConflict ==
    /\ ( /\ resp.op = "create" /\ Handled(resp)
         /\ resp.customCode # Undefined
         /\ KVHas(was.mappings, resp.customCode)
         /\ ~Mapped(was.mappings, resp.url) )
       => (resp.status = 409 /\ mappings = was.mappings)
    /\ ( /\ prev.op = "create" /\ prev.status = 409
         /\ Browser(resp) /\ resp.code = prev.customCode
         /\ \/ was.mappings[resp.code].expirationDate = Null
            \/ DateNow(resp.at) <= was.mappings[resp.code].expirationDate )
       => ( /\ resp.status = 302
            /\ resp.location = was.mappings[resp.code].url
            /\ resp.location # prev.url )

C3_Witness ==
    /\ prev.op = "create" /\ prev.status = 409
    /\ Browser(resp) /\ resp.code = prev.customCode
    /\ resp.status = 302 /\ resp.location # prev.url

\* C4: a record with an expiry redirects (non-bot) at every instant not later
\* than its expirationDate; a non-bot resolve at a later instant answers 404
\* and deletes the record; a resolve of a code without a record answers 404 and
\* stores nothing; after a 404 the code has no record until a create answers
\* 201 with it or an update of it answers 200.  A create answered 201 with
\* expiresIn stores expirationDate = Date.now() + expiresIn * 1000.
C4_LazyExpiration ==
    /\ ( /\ Browser(resp) /\ KVHas(was.mappings, resp.code)
         /\ was.mappings[resp.code].expirationDate # Null )
       => IF DateNow(resp.at) <= was.mappings[resp.code].expirationDate
          THEN /\ resp.status = 302
               /\ resp.location = was.mappings[resp.code].url
               /\ mappings = was.mappings
          ELSE /\ resp.status = 404
               /\ ~KVHas(mappings, resp.code)
    /\ (Browser(resp) /\ ~KVHas(was.mappings, resp.code))
       => (resp.status = 404 /\ mappings = was.mappings)
    /\ ( /\ Browser(prev) /\ prev.status = 404
         /\ ~(resp.op = "create" /\ resp.status = 201 /\ resp.code = prev.code)
         /\ ~(resp.op = "update" /\ resp.status = 200 /\ resp.code = prev.code) )
       => ~KVHas(mappings, prev.code)
    /\ (resp.op = "create" /\ resp.status = 201 /\ resp.expiresIn # Null)
       => mappings[resp.code].expirationDate = resp.at * 1000 + resp.expiresIn * 1000

\* a record was resolved at the very instant of its expirationDate, and the
\* next resolve, one tick later, found it expired and removed it
C4_Witness ==
    /\ Browser(prev) /\ prev.status = 302
    /\ Browser(resp) /\ resp.status = 404 /\ resp.code = prev.code
    /\ KVHas(was.mappings, resp.code)
    /\ was.mappings[resp.code].expirationDate = DateNow(prev.at)
    /\ resp.at > prev.at
    /\ ~KVHas(mappings, resp.code)

\* C5: a non-bot resolve that follows a delete of the same code answers 404;
\* a delete that the middleware lets through answers 200, leaves no record
\* under the code, and leaves the mapping store unchanged when there was none.
C5_DeleteThenResolve ==
    /\ ( /\ prev.op = "delete" /\ prev.status = 200
         /\ Browser(resp) /\ resp.code = prev.code )
       => resp.status = 404
    /\ (resp.op = "delete" /\ resp.status \notin {401, 429})
       => ( /\ resp.status = 200
            /\ ~KVHas(mappings, resp.code)
            /\ ~KVHas(was.mappings, resp.code) => mappings = was.mappings )

\* a stored record was deleted and the resolve after it answered 404
C5_Witness ==
    /\ prev.op = "delete" /\ prev.status = 200 /\ prev.found
    /\ Browser(resp) /\ resp.code = prev.code /\ resp.status = 404

ApiRequest(r) ==
    r.op \in {"api", "create", "update", "delete", "analytics", "aggregate", "domain"}

\* C6: a request of a client that comes a full window after the last one the
\* limiter let through (or is its first) is let through; within one window
\* of that request the limiter lets requests through as long as fewer than
\* limit were let through, and answers 429 to the next ones.
C6_WindowCeiling ==
    (ApiRequest(resp) /\ resp.status # 401)
    => LET a == was.allowed[resp.ip] IN
       /\ WindowOver(a, resp.at) => resp.status # 429
       /\ (~WindowOver(a, resp.at) /\ resp.at < a.start + window)
          => (resp.status = 429 <=> a.n >= limit)

\* C7: the per-code analytics read of a code with a stored record reports as
\* clickCount the number of redirects answered for the code since it was last
\* deleted.
C7_ClickCountIsRedirects ==
    (resp.op = "analytics" /\ resp.status = 200 /\ resp.found)
    => resp.clickCount = redirects[resp.code]

\* C8: at an instant later than the expirationDate of the stored record,
\* the redirect path and the preview-page path both answer 404.
C8_ExpiredNeverServed ==
    ( /\ Browser(resp) \/ resp.op = "og"
      /\ KVHas(was.mappings, resp.code)
      /\ was.mappings[resp.code].expirationDate # Null
      /\ DateNow(resp.at) > was.mappings[resp.code].expirationDate )
    => (resp.status = 404 /\ resp.location = None)

\* C9: a create answered 200 returns the code of a record that has not
\* expired.
C9_DedupLiveOnly ==
    (resp.op = "create" /\ resp.status = 200)
    => ( /\ KVHas(was.mappings, resp.code)
         /\ \/ was.mappings[resp.code].expirationDate = Null
            \/ DateNow(resp.at) <= was.mappings[resp.code].expirationDate )

\* C10 as claimed: a create with a custom code under which a record is stored
\* answers 409, whatever its URL.
C10_TakenCodeAlwaysConflict ==
    ( /\ resp.op = "create" /\ Handled(resp)
      /\ resp.customCode # Undefined
      /\ KVHas(was.mappings, resp.customCode) )
    => resp.status = 409

\* C10 as amended: a create with a custom code under which a record is stored
\* answers 409 when no record maps its URL; when a record maps the URL it
\* answers 200 with the code of such a record; either way the mapping store
\* stays as it was.
C10_TakenCodeConflictUnlessMapped ==
    ( /\ resp.op = "create" /\ Handled(resp)
      /\ resp.customCode # Undefined
      /\ KVHas(was.mappings, resp.customCode) )
    => ( /\ IF Mapped(was.mappings, resp.url)
            THEN /\ resp.status = 200
                 /\ KVHas(was.mappings, resp.code)
                 /\ was.mappings[resp.code].url = resp.url
            ELSE resp.status = 409
         /\ mappings = was.mappings )

\* the custom code is taken by one URL, the requested URL is mapped under
\* another code, and the create answers 200 with that other code
C10_Witness ==
    /\ resp.op = "create" /\ resp.status = 200
    /\ resp.customCode # Undefined
    /\ KVHas(was.mappings, resp.customCode)
    /\ was.mappings[resp.customCode].url # resp.url
    /\ resp.code # resp.customCode

\* C11: an update of a code without a stored record answers 404 and stores
\* nothing; an update answers 200 only for a code with a record, so an update
\* adds no key to the mapping store.
C11_UpdateNeverAdds ==
    (resp.op = "update" /\ Handled(resp))
    => ( /\ resp.status = 200 <=> KVHas(was.mappings, resp.code)
         /\ ~KVHas(was.mappings, resp.code)
            => (resp.status = 404 /\ mappings = was.mappings)
         /\ DOMAIN mappings \subseteq DOMAIN was.mappings )

\* no time has passed since the last request was answered: the stores are as
\* that request left them
JustAnswered == now = resp.at

\* the body a create request carried, as far as the validation looks at it
BodyOf(r) == Body(r.url, r.customCode, r.expiresIn, NoMeta)

\* the counter of the client after one more request was let through at t
Counted(an, ip, t) ==
    KVPut(an, rateLimitKey(ip), [val |-> RateCount(an, ip) + 1, exp |-> t + window])

\* C12 as claimed: a create or update whose body fails the validation writes
\* no key of any store, the rate-limit counter of the client included.
C12_InvalidBodyNoStoreAccess ==
    (resp.op \in {"create", "update"} /\ resp.status = 400 /\ JustAnswered)
    => ( /\ mappings = was.mappings
         /\ ogCache = was.cache
         /\ analytics = was.analytics )

\* C12 as amended: a create or update whose body fails the validation is
\* answered 400 after the middleware and before the handler: the limiter has
\* counted it (the client's counter is rewritten with count + 1 and a fresh
\* TTL), and no other key of the mapping store, the analytics store or the
\* metadata cache is written; no request with such a body reaches a handler.
C12_InvalidBodyCountedOnly ==
    /\ (resp.op \in {"create", "update"} /\ resp.status = 400 /\ JustAnswered)
       => ( /\ mappings = was.mappings
            /\ ogCache = was.cache
            /\ RateCount(was.analytics, resp.ip) < limit
            /\ analytics = Counted(was.analytics, resp.ip, resp.at) )
    /\ (resp.op = "create" /\ Handled(resp)) => createUrlSchema(BodyOf(resp))
    /\ (resp.op = "update" /\ Handled(resp)) => updateUrlSchema(resp.url)
    /\ (resp.op = "create" /\ resp.status = 400) => ~createUrlSchema(BodyOf(resp))
    /\ (resp.op = "update" /\ resp.status = 400) => ~updateUrlSchema(resp.url)

\* an expiration above the maximum is answered 400 while a record is stored,
\* and the counter of the client went from 1 to 2
C12_Witness ==
    /\ resp.op = "create" /\ resp.status = 400
    /\ resp.expiresIn = MaxExpiresIn + 1
    /\ DOMAIN mappings # {}
    /\ RateCount(was.analytics, resp.ip) = 1
    /\ RateCount(analytics, resp.ip) = 2

\* C13: a request the limiter rejects (the stored count is at or above the
\* limit) leaves the counter and every other key of every store as it was.
C13_RejectedLeavesStores ==
    (ApiRequest(resp) /\ resp.status = 429 /\ JustAnswered)
    => ( /\ RateCount(was.analytics, resp.ip) >= limit
         /\ analytics = was.analytics
         /\ mappings = was.mappings
         /\ ogCache = was.cache
         /\ allowed = was.allowed )

\* the request before took the counter to the limit, this one is rejected
C13_Witness ==
    /\ ApiRequest(prev) /\ prev.status \notin {401, 429}
    /\ ApiRequest(resp) /\ resp.status = 429
    /\ RateCount(analytics, resp.ip) = limit
    /\ analytics[rateLimitKey(resp.ip)].exp = prev.at + window

\* C14: a request of /api/* whose token is missing, empty, unknown to
\* API_KEYS or stored there with an empty value is answered 401, whatever the
\* client's counter holds, and a request answered 401 writes no key of any
\* store: the counter of the client is not incremented.
C14_UnauthenticatedFirst ==
    /\ (ApiRequest(resp) /\ resp.token \in Tokens \ {"k1"}) => resp.status = 401
    /\ (ApiRequest(resp) /\ resp.status = 401 /\ JustAnswered)
       => ( /\ ~Authenticated(resp.token)
            /\ analytics = was.analytics
            /\ mappings = was.mappings
            /\ ogCache = was.cache
            /\ allowed = was.allowed )

\* a token with an empty stored value is answered 401 although the counter of
\* the client stands at the limit
C14_Witness ==
    /\ ApiRequest(resp) /\ resp.status = 401 /\ resp.token = "k0"
    /\ RateCount(was.analytics, resp.ip) = limit
    /\ RateCount(analytics, resp.ip) = limit

\* C15: no step lowers the stored click counter of a code that keeps its
\* record (no delete of the code): resolves, creates, updates and analytics
\* reads, however they interleave, leave the count where it is or raise it.
C15_ClicksNeverDecrease ==
    [][\A k \in Keys :
          (KVHas(mappings, k) /\ KVHas(mappings', k))
          => ClickCount(analytics', k) >= ClickCount(analytics, k)]_vars

C17_TotalClicksIsRedirects ==
    (resp.op = "aggregate" /\ resp.status = 200) => resp.clickCount = served

\* C18: a create answered 409 writes nothing but the counter of the limiter:
\* the mapping store, the click counters and the metadata cache stay as the
\* request found them.
C18_ConflictWritesNothing ==
    (resp.op = "create" /\ resp.status = 409 /\ JustAnswered)
    => ( /\ mappings = was.mappings
         /\ analytics = Counted(was.analytics, resp.ip, resp.at)
         /\ ogCache = was.cache )

\* C19: a create answered by the duplicate scan (200) has fetched no metadata
\* and written nothing to the metadata cache.
C19_DedupBeforeMetadata ==
    (resp.op = "create" /\ resp.status = 200 /\ JustAnswered)
    => (resp.page = None /\ ogCache = was.cache)

\* the answer a create gets from the duplicate scan and the custom code check
\* alone
AnswerOf(m, r) ==
    IF Mapped(m, r.url) THEN 200
    ELSE IF r.customCode # Undefined /\ KVHas(m, r.customCode) THEN 409
    ELSE 201

Resolves(r) == r.op = "create" /\ Handled(r) /\ ~AllGiven(r.meta)

\* C21: a resolver call that finds the URL in the metadata cache fetches
\* nothing, leaves the entry and its expiry as they are and returns the cached
\* metadata; a call that finds no entry fetches and caches the result for
\* CacheTtl seconds; and the entry a call has written is there for every call
\* that comes less than CacheTtl seconds later and gone for a later one, which
\* fetches again.
C21_CachedWithinTtl ==
    LET k == ogKey(resp.url) IN
    /\ (Resolves(resp) /\ JustAnswered /\ KVHas(was.cache, k))
       => ( /\ resp.page = None
            /\ ogCache[k] = was.cache[k]
            /\ resp.status = 201 => mappings[resp.code].meta = was.cache[k].meta )
    /\ (Resolves(resp) /\ JustAnswered /\ ~KVHas(was.cache, k))
       => ( /\ resp.page \in Pages
            /\ ogCache[k] = [meta |-> PageMeta(resp.page), exp |-> resp.at + CacheTtl] )
    /\ (Resolves(prev) /\ prev.page # None /\ Resolves(resp) /\ resp.url = prev.url)
       => IF resp.at < prev.at + CacheTtl
          THEN /\ KVHas(was.cache, k)
               /\ was.cache[k] = [meta |-> PageMeta(prev.page), exp |-> prev.at + CacheTtl]
          ELSE ~KVHas(was.cache, k) /\ resp.page # None

\* the fallback of an unreachable target was cached by a create that answered
\* 409; half a TTL later a create for the same URL stored it without a fetch
C21_Witness ==
    /\ Resolves(prev) /\ prev.page = "unreachable" /\ prev.status = 409
    /\ Resolves(resp) /\ resp.url = prev.url /\ resp.status = 201
    /\ resp.at > prev.at /\ resp.at < prev.at + CacheTtl
    /\ resp.page = None
    /\ mappings[resp.code].meta.ogTitle = "Untitled"

\* C22: a create answered 201 stores every preview field that its body
\* carried as the body carried it.
C22_CallerFieldsKept ==
    (resp.op = "create" /\ resp.status = 201)
    => \A f \in {"ogTitle", "ogDescription", "ogImage"} :
          resp.meta[f] # Undefined => mappings[resp.code].meta[f] = resp.meta[f]

\* C23: the delete of the resolve path (line 269) never removes a record that
\* is live at the moment of the delete: the record stored under the code when
\* the step is taken, if there is one, has expired.
C23_LazyDeleteHarmless ==
    [][\A p \in Procs :
          ( /\ inflight[p].pc = "expired" /\ inflight'[p].pc = "done"
            /\ KVHas(mappings, inflight[p].code) )
          => Expired(mappings[inflight[p].code], now)]_vars

\* the resolves of code k that have found the record live since the click
\* counter of k was last removed
PassedSince(k) == {p \in Procs : inflight[p].code = k /\ inflight[p].passed}

\* C27: the stored click count of a code (the key of a limiter counter put
\* aside) never exceeds the number of resolves of the code that have passed
\* the found-and-live check since the counter was last absent.
C27_NeverOvercounts ==
    \A k \in Keys \ {rateLimitKey(ip) : ip \in Ips} :
        ClickCount(analytics, k) <= Cardinality(PassedSince(k))

\* the resolves of code k that have answered with the redirect
Redirected(k) ==
    {p \in Procs : inflight[p].code = k /\ inflight[p].pc = "done" /\ inflight[p].status = 302}

\* C26: the last write wins: the stored count of a code is the count that one
\* of the resolves redirected so far had read, plus one, however many of them
\* there are; it is absent as long as none has answered, and it never exceeds
\* their number.
C26_LastWriteWins ==
    \A k \in Keys :
        IF Redirected(k) = {} THEN ~KVHas(analytics, k)
        ELSE /\ KVHas(analytics, k)
             /\ \E p \in Redirected(k) : analytics[k].val = inflight[p].read + 1
             /\ analytics[k].val <= Cardinality(Redirected(k))

\* two resolves of a live code have both redirected and the count grew by 1
C26_Witness ==
    \E k \in Keys : \E p, q \in Redirected(k) :
        /\ p # q
        /\ ~Expired(mappings[k], now)
        /\ inflight[p].read = 0 /\ inflight[q].read = 0
        /\ ClickCount(analytics, k) = 1

\* no record written by a create was overwritten by another create
NoCodeTwice ==
    \A p, q \in Created : p # q => inflight[p].code # inflight[q].code

\* C24: two creates for the same URL are both answered 201 only when they
\* overlap: neither had answered when the other listed the keys.  A create that
\* lists the keys after another has stored the URL finds the record (as long
\* as it was not overwritten under its code) and answers 200.
C24_DuplicatesOnlyWhenOverlapping ==
    NoCodeTwice
    => \A p, q \in Created :
          (p # q /\ inflight[p].url = inflight[q].url)
          => (q \notin inflight[p].seen /\ p \notin inflight[q].seen)

\* two creates for the same unmapped URL, without custom code, have both
\* answered 201 with distinct codes and both records are stored
C24_Witness ==
    \E p, q \in Created :
        /\ inflight[p].url = inflight[q].url
        /\ inflight[p].customCode = Undefined /\ inflight[q].customCode = Undefined
        /\ ~Mapped(was.mappings, inflight[p].url)
        /\ inflight[p].code # inflight[q].code
        /\ KVHas(mappings, inflight[p].code) /\ KVHas(mappings, inflight[q].code)
        /\ mappings[inflight[p].code].url = inflight[p].url
        /\ mappings[inflight[q].code].url = inflight[p].url

\* C25: of the creates that carry the same custom code and different URLs at
\* most one is answered 201 (the exploration deletes nothing).
C25_OneCreatePerCustomCode ==
    \A p, q \in Created :
        ( /\ inflight[p].customCode # Undefined
          /\ inflight[p].customCode = inflight[q].customCode
          /\ inflight[p].url # inflight[q].url )
        => p = q

\* C28: every request the limiter lets through has read a count below the
\* ceiling, and the count stored is the count that one of them had read, plus
\* one (or the count the client started with): a request that read the same
\* count as another adds nothing to it.
C28_CountIsSomeReadPlusOne ==
    /\ \A p \in Admitted : inflight[p].read < limit
    /\ \A ip \in Ips :
          KVHas(analytics, rateLimitKey(ip))
          => \/ \E p \in Admitted : /\ inflight[p].ip = ip
                                    /\ analytics[rateLimitKey(ip)].val = inflight[p].read + 1
             \/ /\ KVHas(was.analytics, rateLimitKey(ip))
                /\ analytics[rateLimitKey(ip)] = was.analytics[rateLimitKey(ip)]

\* two requests have read limit - 1 and were both let through: limit + 1
\* requests of the client were allowed in the window, the count stored is limit
C28_Witness ==
    \E ip \in Ips : \E p, q \in Admitted :
        /\ p # q
        /\ inflight[p].ip = ip /\ inflight[q].ip = ip
        /\ inflight[p].read = limit - 1 /\ inflight[q].read = limit - 1
        /\ allowed[ip].n = limit + 1
        /\ now < allowed[ip].start + window
        /\ RateCount(analytics, ip) = limit

\* C29: the count stored for a client is between 1 and the ceiling.
C29_StoredCountWithinCeiling ==
    \A ip \in Ips :
        KVHas(analytics, rateLimitKey(ip))
        => (analytics[rateLimitKey(ip)].val >= 1 /\ analytics[rateLimitKey(ip)].val <= limit)

\* C30: an allowed request leaves the counter of the client with the expiry
\* of the current window, one window length after the first allowed request of
\* the current count; and a request is rejected only when the ceiling was
\* reached by requests allowed within the window length before it.
C30_TtlIsRemainingWindow ==
    /\ (ApiRequest(resp) /\ resp.status \notin {401, 429} /\ JustAnswered)
       => ( /\ KVHas(analytics, rateLimitKey(resp.ip))
            /\ analytics[rateLimitKey(resp.ip)].exp = allowed[resp.ip].start + window )
    /\ (ApiRequest(resp) /\ resp.status = 429)
       => ( /\ was.allowed[resp.ip].n >= limit
            /\ resp.at < was.allowed[resp.ip].start + window )

\* C31: after an update of a code to v has answered 200 the record stored
\* under the code has the url v, no expiration and no preview fields, whatever
\* record was there before; a non-bot resolve of the code that follows the
\* update, at whatever instant, redirects to v.
C31_UpdateReplacesRecord ==
    /\ (resp.op = "update" /\ resp.status = 200)
       => ( /\ KVHas(mappings, resp.code)
            /\ mappings[resp.code].url = resp.url
            /\ mappings[resp.code].expirationDate = Null
            /\ mappings[resp.code].meta = NoMeta )
    /\ (prev.op = "update" /\ prev.status = 200 /\ Browser(resp) /\ resp.code = prev.code)
       => (resp.status = 302 /\ resp.location = prev.url)

\* an update has given a code another url, and a resolve at a later instant
\* (past the expiration of any record created with the shortest expiresIn)
\* redirects to it
C31_Witness ==
    /\ prev.op = "update" /\ prev.status = 200
    /\ Browser(resp) /\ resp.code = prev.code /\ resp.at > prev.at
    /\ resp.status = 302 /\ resp.location = prev.url
    /\ resp.location # "https://a.io/x"
    /\ KVHas(mappings, resp.code) /\ mappings[resp.code].expirationDate = Null

\* C32: no two records of the mapping store have the same target url.
C32_TargetsUnique ==
    \A k1, k2 \in DOMAIN mappings :
        mappings[k1].url = mappings[k2].url => k1 = k2

\* a create answered 201 whose code was free
Fresh(r) == r.op = "create" /\ r.status = 201 /\ ~KVHas(was.mappings, r.code)

\* C33: a create without custom code that answers 201 adds one key to the
\* mapping store, the code it answers with, and leaves every record that was
\* stored as it was.
C33_GeneratedCodeIsNew ==
    (resp.op = "create" /\ resp.status = 201 /\ resp.customCode = Undefined)
    => ( /\ ~KVHas(was.mappings, resp.code)
         /\ DOMAIN mappings = DOMAIN was.mappings \cup {resp.code}
         /\ \A k \in DOMAIN was.mappings : mappings[k] = was.mappings[k] )

\* C34: when a create answers 201 for a code that had no record, the code has
\* no click counter, and an analytics read of the code that follows at once
\* reports no click.
C34_NewCodeHasNoClicks ==
    /\ Fresh(resp) => ~KVHas(analytics, resp.code)
    /\ ( /\ prev.op = "create" /\ prev.status = 201
         /\ ~KVHas(was.mappings, prev.code)
         /\ resp.op = "analytics" /\ resp.status = 200 /\ resp.code = prev.code )
       => resp.clickCount = 0

\* the keys of the limiter
RateKeys == {rateLimitKey(ip) : ip \in Ips}

\* the counters of the limiter in a store
RateCounters(an) == [k \in DOMAIN an \cap RateKeys |-> an[k]]

\* C35: the counter of a client is written by the limiter step of the
\* client's own requests only: a request that the limiter lets through leaves
\* the counter one higher with a fresh TTL, whatever short code it names, any
\* other request leaves every counter as it was, and an analytics read of a
\* short code reports nothing of a counter.
C35_CountersAreTheLimiters ==
    /\ (ApiRequest(resp) /\ resp.status \notin {401, 429} /\ JustAnswered)
       => RateCounters(analytics) = RateCounters(Counted(was.analytics, resp.ip, resp.at))
    /\ (JustAnswered /\ (~ApiRequest(resp) \/ resp.status \in {401, 429}))
       => RateCounters(analytics) = RateCounters(was.analytics)
    /\ (resp.op = "analytics" /\ resp.status = 200 /\ resp.code \in RateKeys)
       => resp.clickCount = 0

====
